---------------------------- MODULE Spec2Model ----------------------------
(***************************************************************************)
(* A state-machine model of the capture-the-flag tank game: the main loop  *)
(* (ctf.py), the world setup and collision handlers (game_setup.py) and    *)
(* the opponent AI (ai.py).  World positions are abstracted to tiles and   *)
(* orientations to quarter turns.                                          *)
(***************************************************************************)
EXTENDS Integers, Sequences, FiniteSets, TLC

VARIABLES
    current_map,    \* the Map: width, height, boxes, start_positions, flag_position
    player_amount,  \* number of human-controlled tanks
    tanks,          \* tank index -> Tank fields (pos, orient, intents, velocities, flag)
    flag,           \* the Flag's position
    space,          \* shapes in the physics space: boxes and bullets (tanks never leave)
    game_objects,   \* the ordered list of live game objects
    ais,            \* tank index -> Ai fields (generator position, grid_pos, next_coord, ...)
    scores,         \* tank index -> score
    loop,           \* main(): pc, running, skip_update, pending contacts, ai cursor
    hist            \* observations of the current tick (what ran, what was issued)

vars == <<current_map, player_amount, tanks, flag, space, game_objects, ais,
          scores, loop, hist>>

--------------------------------------------------------------------------
(* Bounds of the model *)

\* width of the layouts enumerated for the pathfinder
MaxWidth == 3
\* number of boxes placed in an enumerated layout
MaxObstacles == 2
\* ticks followed from an enumerated layout
MaxBfsTicks == 2
\* inputs of one run: key events polled plus bullets fired
MaxInputs == 2
\* collision callbacks invoked in one physics step
MaxContacts == 2
\* the run is followed until a tank has this score
MaxScore == 1
\* ticks of the main loop followed in one run
MaxTicks == 6

--------------------------------------------------------------------------
(* Map data model (maps.py) *)

Tiles(w, h) == (0 .. w - 1) \X (0 .. h - 1)

\* Map.boxAt(x, y)
boxAt(m, x, y) == m.boxes[<<x, y>>]

--------------------------------------------------------------------------
(* ai.py: breadth-first search *)

\* Ai.in_bounds: max_x = width - 1, max_y = height - 1
in_bounds(m, coord) ==
    LET in_horizontal == 0 <= coord[1] /\ coord[1] <= m.width - 1
        in_vertical == 0 <= coord[2] /\ coord[2] <= m.height - 1
    IN in_horizontal /\ in_vertical

\* a filter that forgets the box type: every in-bounds tile is a neighbour
filter_tile_neighbors_in_bounds_only(m, coord) == in_bounds(m, coord)

\* Ai.filter_tile_neighbors
filter_tile_neighbors(m, coord) ==
    IF ~in_bounds(m, coord) THEN FALSE
    ELSE LET box_type == boxAt(m, coord[1], coord[2])
         IN box_type = 0 \/ box_type = 2

Offsets == << <<1, 0>>, <<0, 1>>, <<-1, 0>>, <<0, -1>> >>

\* Ai.get_tile_neighbors: the four neighbours in offset order, filtered
get_tile_neighbors(m, coord_vec) ==
    LET neighbors == [k \in 1 .. 4 |->
                        <<coord_vec[1] + Offsets[k][1], coord_vec[2] + Offsets[k][2]>>]
    IN SelectSeq(neighbors, LAMBDA n : filter_tile_neighbors(m, n))

\* the inner for-loop of find_shortest_path over the neighbours of current
RECURSIVE VisitNeighbors(_, _, _)
VisitNeighbors(nbrs, current, st) ==
    IF nbrs = <<>> THEN st
    ELSE LET neighbor == Head(nbrs)
         IN IF neighbor \notin st.visited
            THEN VisitNeighbors(Tail(nbrs), current,
                    [que |-> Append(st.que, neighbor),
                     visited |-> st.visited \cup {neighbor},
                     paths |-> (neighbor :> Append(st.paths[current], neighbor))
                               @@ st.paths])
            ELSE VisitNeighbors(Tail(nbrs), current, st)

\* a search that, when the frontier empties, heads straight for the target
RECURSIVE BfsLoopStraight(_, _, _)
BfsLoopStraight(m, target, st) ==
    IF st.que = <<>> THEN <<target>>
    ELSE LET current == Head(st.que)
             popped == [st EXCEPT !.que = Tail(st.que)]
         IN IF current = target THEN st.paths[current]
            ELSE BfsLoopStraight(m, target,
                    VisitNeighbors(get_tile_neighbors(m, current), current, popped))

\* the while-loop of find_shortest_path
RECURSIVE BfsLoop(_, _, _)
BfsLoop(m, target, st) ==
    IF st.que = <<>> THEN <<>>
    ELSE LET current == Head(st.que)
             popped == [st EXCEPT !.que = Tail(st.que)]
         IN IF current = target THEN st.paths[current]
            ELSE BfsLoop(m, target,
                         VisitNeighbors(get_tile_neighbors(m, current), current, popped))

\* Ai.find_shortest_path, from the cached grid_pos to the target tile
find_shortest_path(m, gridpos, target) ==
    BfsLoop(m, target, [que |-> <<gridpos>>, visited |-> {gridpos},
                        paths |-> (gridpos :> <<>>)])


--------------------------------------------------------------------------
(* Game objects (gameobjects.py): entities, tanks, the flag *)

\* a game object / physics shape owner: kind plus two integers identifying it
Obj(kind, a, b) == [kind |-> kind, a |-> a, b |-> b]
BaseObj(i) == Obj("base", i, 0)
BoxObj(tile) == Obj("box", tile[1], tile[2])
TankObj(i) == Obj("tank", i, 0)
BulletObj(b) == Obj("bullet", b, 0)
FlagObj == Obj("flag", 0, 0)
\* one of the four boundary segments of create_borders (a shape without parent)
SegmentShape == Obj("segment", 0, 0)

TankIds == DOMAIN tanks

\* Tank.start_position and the spawn orientation, from the map's spawn descriptor
StartTile(m, i) == <<m.start_positions[i][1], m.start_positions[i][2]>>
StartOrient(m, i) == m.start_positions[i][3]

\* a Box is destructible when its obstacle code is the wood code
Destructible(m, tile) == m.boxes[tile] = 2

\* a tank as constructed by Tank(x, y, orientation, image, space)
NewTank(m, i) ==
    [pos |-> StartTile(m, i), orient |-> StartOrient(m, i),
     acceleration |-> 0, rotation |-> 0, vel |-> 0, angvel |-> 0, flag |-> FALSE]

\* Tank intent commands: they change intent only, consumed by the next update
accelerate(T) == [T EXCEPT !.acceleration = 1]
decelerate(T) == [T EXCEPT !.acceleration = -1]
turn_left(T) == [T EXCEPT !.rotation = -1]
turn_right(T) == [T EXCEPT !.rotation = 1]
stop_moving(T) == [T EXCEPT !.acceleration = 0]
stop_turning(T) == [T EXCEPT !.rotation = 0]

\* Tank.update: intent becomes linear and angular velocity of the body
tank_update(T) == [T EXCEPT !.vel = T.acceleration, !.angvel = T.rotation]

\* Tank.respawn: spawn position and orientation, no velocity, no intent, no flag
tank_respawn(m, i, T) == NewTank(m, i)

\* the flag position after tank i respawned: a carried flag goes back to its location
flag_after_respawn(m, T, f) == IF T.flag THEN m.flag_position ELSE f

\* Flag.respawn
flag_respawn(m) == m.flag_position

\* Tank.try_grab_flag: within grab range and not carrying it already. Grab range is
\* a distance shorter than a tile: a tank on the tile of the flag is within it
\* (in_range) or not, a tank on another tile is not
try_grab_flag(T, f, in_range) ==
    IF ~T.flag /\ T.pos = f /\ in_range THEN [T EXCEPT !.flag = TRUE] ELSE T

\* Tank.has_won: carrying the flag on the home tile
has_won(m, i, T) == T.flag /\ T.pos = StartTile(m, i)

\* forward direction of a body: rotation_vector rotated by 90 degrees
Forward(o) == CASE o = 0 -> <<0, 1>> [] o = 1 -> <<-1, 0>>
                [] o = 2 -> <<0, -1>> [] OTHER -> <<1, 0>>

AddVec(p, d, k) == <<p[1] + k * d[1], p[2] + k * d[2]>>

--------------------------------------------------------------------------
(* ai.py: the opponent controller *)

\* MIN_ANGLE_DIF, in degrees
MIN_ANGLE_DIF == 3

\* the tanks driven by an Ai: create_tanks wraps every tank after the first
\* player_amount ones
AiIds == DOMAIN ais

\* an Ai as constructed: generator not started, grid_pos from the tank's position
NewAi(T) == [pc |-> "start", grid_pos |-> T.pos, next_coord |-> T.pos, distance |-> 0]

\* Ai.get_target_tile
get_target_tile(m, i, T, f) == IF T.flag THEN StartTile(m, i) ELSE f

\* heading of a unit vector in quarter turns
QuarterOf(v) == CASE v = <<1, 0>> -> 0 [] v = <<0, 1>> -> 1
                  [] v = <<-1, 0>> -> 2 [] OTHER -> 3

\* target_vector.get_angle_between(rotation_vector.rotated_degrees(90)), in degrees
current_angle(T, A) ==
    LET target_vector == <<A.next_coord[1] - A.grid_pos[1], A.next_coord[2] - A.grid_pos[2]>>
        q == (QuarterOf(Forward(T.orient)) - QuarterOf(target_vector) + 4) % 4
    IN CASE q = 0 -> 0 [] q = 1 -> 90 [] q = 2 -> 180 [] OTHER -> -90

Abs(x) == IF x < 0 THEN -x ELSE x

\* target_center.get_distance(tank.body.position), squared, in tiles
get_distance(T, A) ==
    (A.next_coord[1] - T.pos[1]) * (A.next_coord[1] - T.pos[1])
    + (A.next_coord[2] - T.pos[2]) * (A.next_coord[2] - T.pos[2])

\* result of one resumption of the generator, up to its next yield
Yield(T, A, pc, cmds, acquired, found) ==
    [tank |-> T, ai |-> [A EXCEPT !.pc = pc], cmds |-> cmds,
     acquired |-> acquired, found |-> found]

\* move_cycle_gen, lines 107-113: accelerate, measure, first pass of the loop yields
DrivingPhase(T, A, cmds, acquired, found) ==
    LET T1 == accelerate(T)
        A1 == [A EXCEPT !.distance = get_distance(T1, A)]
    IN Yield(T1, A1, "driving", cmds \cup {"accelerate"}, acquired, found)

\* move_cycle_gen, lines 101-105, with the angle just measured
TurningLoop(T, A, cmds, acquired, found) ==
    IF Abs(current_angle(T, A)) > MIN_ANGLE_DIF
    THEN Yield(stop_moving(T), A, "turning", cmds \cup {"stop_moving"}, acquired, found)
    ELSE DrivingPhase(stop_turning(T), A, cmds \cup {"stop_turning"}, acquired, found)

\* move_cycle_gen, lines 86-100: find a path, idle without one, else start turning
PathPhase(m, i, T, A, f, cmds) ==
    LET path == find_shortest_path(m, A.grid_pos, get_target_tile(m, i, T, f))
    IN IF path = <<>>
       THEN Yield(T, A, "nopath", cmds, TRUE, path)
       ELSE LET A1 == [A EXCEPT !.next_coord = Head(path)]
                angle == current_angle(T, A1)
            IN IF angle > MIN_ANGLE_DIF
               THEN TurningLoop(turn_left(T), A1, cmds \cup {"turn_left"}, TRUE, path)
               ELSE IF angle < -MIN_ANGLE_DIF
               THEN TurningLoop(turn_right(T), A1, cmds \cup {"turn_right"}, TRUE, path)
               ELSE TurningLoop(T, A1, cmds, TRUE, path)

\* next(self.move_cycle): resume the generator where it yielded
move_cycle_next(m, i, T, A, f) ==
    CASE A.pc \in {"start", "nopath"} -> PathPhase(m, i, T, A, f, {})
      [] A.pc = "turning" -> TurningLoop(T, A, {}, FALSE, <<>>)
      [] OTHER ->
            \* lines 114-116: the driving loop's test after the yield
            LET distance == get_distance(T, A)
            IN IF distance < A.distance
               THEN Yield(T, [A EXCEPT !.distance = distance], "driving", {}, FALSE, <<>>)
               ELSE \* update_grid_pos, then back to the top of the while True loop
                    PathPhase(m, i, T, [A EXCEPT !.distance = distance, !.grid_pos = T.pos],
                              f, {})

\* the first box, tank or boundary along the ray of maybe_shoot, from k tiles ahead
RECURSIVE RayCast(_, _, _, _, _, _)
RayCast(m, i, tks, boxes, k, len) ==
    LET c == AddVec(tks[i].pos, Forward(tks[i].orient), k)
        hit_tanks == {j \in DOMAIN tks : j # i /\ tks[j].pos = c}
    IN IF k > len THEN {Obj("none", 0, 0)}
       ELSE IF ~in_bounds(m, c)
       \* a tank close to the wall it faces casts its ray from beyond the segment
       THEN IF k = 1 THEN {SegmentShape, Obj("none", 0, 0)} ELSE {SegmentShape}
       ELSE IF c \in boxes THEN {BoxObj(c)}
       ELSE IF hit_tanks # {} THEN {TankObj(j) : j \in hit_tanks}
       ELSE RayCast(m, i, tks, boxes, k + 1, len)

\* space.segment_query_first(start, end, 0, ShapeFilter()): the first shape on the
\* ray, which may also be any bullet in flight
segment_query_first(m, i, tks, sp) ==
    RayCast(m, i, tks, sp.boxes, 1, (m.width - 1) + (m.height - 1))
    \cup {BulletObj(b) : b \in sp.bullets}

\* a shooter that fires at whatever the ray strikes first
ShootsAtAnything(m, hit) == hit.kind # "none"

\* maybe_shoot, lines 75-79: whether the hit makes the Ai call tank.shoot
ShootsAt(m, hit) ==
    LET has_parent == hit.kind \in {"tank", "box", "bullet"}
        is_tank == hit.kind = "tank"
        is_wood_box == hit.kind = "box" /\ Destructible(m, <<hit.a, hit.b>>)
    IN hit.kind # "none" /\ has_parent /\ (is_tank \/ is_wood_box)

--------------------------------------------------------------------------
(* gameobjects.py: bullets and boxes in the physics space *)

\* Tank.shoot(space): a new bullet added to the space, or None (0) when the tank's
\* firing policy disallows it
ShootResults(sp) == {0} \cup (IF sp.inputs < MaxInputs THEN {sp.next} ELSE {})
space_after_shoot(sp, bullet) ==
    IF bullet = 0 THEN sp
    ELSE [sp EXCEPT !.bullets = @ \cup {bullet}, !.next = @ + 1, !.inputs = @ + 1]

\* Bullet.remove(space) and Box.remove(space)
bullet_remove(sp, b) == [sp EXCEPT !.bullets = @ \ {b}]
box_remove(sp, tile) == [sp EXCEPT !.boxes = @ \ {tile}]

\* a bullet that is put on the list twice
append_bullet_twice(list, bullet) ==
    IF bullet # 0 THEN Append(Append(list, BulletObj(bullet)), BulletObj(bullet)) ELSE list

\* if bullet is not None: game_objects.append(bullet)
append_bullet(list, bullet) ==
    IF bullet # 0 THEN Append(list, BulletObj(bullet)) ELSE list

\* list membership and list.remove(x): the first equal element is dropped, and
\* ValueError is raised when there is none
InList(list, x) == \E k \in DOMAIN list : list[k] = x
ListRemove(list, x) ==
    IF InList(list, x)
    THEN LET k == CHOOSE j \in DOMAIN list :
                      list[j] = x /\ \A l \in 1 .. j - 1 : list[l] # x
         IN [list |-> SubSeq(list, 1, k - 1) \o SubSeq(list, k + 1, Len(list)),
             raised |-> FALSE]
    ELSE [list |-> list, raised |-> TRUE]

--------------------------------------------------------------------------
(* game_setup.py: world construction *)

\* the bundled level
Map0Width == 3
Map0Height == 2
Map0 ==
    [width |-> Map0Width, height |-> Map0Height,
     boxes |-> [t \in Tiles(Map0Width, Map0Height) |->
                  IF t = <<0, 1>> THEN 2 ELSE IF t = <<2, 1>> THEN 1 ELSE 0],
     start_positions |-> << <<0, 0, 3>>, <<2, 0, 1>>, <<1, 1, 3>> >>,
     flag_position |-> <<1, 0>>]

\* the tiles of a map in the order of the loops of create_boxes (rows, then columns)
TileSeq(m) == [k \in 1 .. m.width * m.height |-> <<(k - 1) % m.width, (k - 1) \div m.width>>]

\* create_bases
create_bases(m) == [i \in 1 .. Len(m.start_positions) |-> BaseObj(i)]

\* create_boxes: one box per tile with a nonzero code
create_boxes(m) ==
    LET tiles == SelectSeq(TileSeq(m), LAMBDA t : boxAt(m, t[1], t[2]) # 0)
    IN [k \in 1 .. Len(tiles) |-> BoxObj(tiles[k])]

\* create_tanks: the tanks, and an Ai for every tank after the first player_amount
create_tanks(m) == [i \in 1 .. Len(m.start_positions) |-> NewTank(m, i)]
create_ais(m, pa) ==
    [i \in {j \in 1 .. Len(m.start_positions) : j > pa} |-> NewAi(NewTank(m, i))]

\* create_game_objects: bases, boxes, tanks, flag
create_game_objects(m) ==
    create_bases(m) \o create_boxes(m)
    \o [i \in 1 .. Len(m.start_positions) |-> TankObj(i)] \o <<FlagObj>>

--------------------------------------------------------------------------
(* ctf.py: main() up to the loop *)

NoDecide ==
    [ai |-> 0, hit |-> Obj("none", 0, 0), shoot |-> FALSE, bullet |-> 0, cmds |-> {},
     acquired |-> FALSE, found |-> <<>>, start |-> <<0, 0>>, target |-> <<0, 0>>,
     from |-> "start"]

NewTick == [updated |-> FALSE, stepped |-> FALSE, posted |-> FALSE]

NoCollision ==
    [handler |-> "none", bullet |-> 0, other |-> Obj("none", 0, 0), raised |-> FALSE]

NoEvent == [type |-> "none", key |-> "none"]

NoSpace == [boxes |-> {}, bullets |-> {}, next |-> 0, inputs |-> 0]

\* the state main() has built when it enters the while loop, with the inputs
\* and ticks already spent
Setup(m, pa, inputs, ticks) ==
    /\ current_map = m
    /\ player_amount = pa
    /\ tanks = create_tanks(m)
    /\ flag = m.flag_position
    /\ space = [boxes |-> {t \in Tiles(m.width, m.height) : m.boxes[t] # 0},
                bullets |-> {}, next |-> 1, inputs |-> inputs]
    /\ game_objects = create_game_objects(m)
    /\ ais = create_ais(m, pa)
    /\ scores = [i \in 1 .. Len(m.start_positions) |-> 0]
    /\ loop = [pc |-> "events", running |-> TRUE, skip_update |-> 0, should_quit |-> FALSE,
               ai_idx |-> 0, contacts |-> {}, before |-> NoSpace, ticks |-> ticks]
    /\ hist = [decide |-> NoDecide, tick |-> NewTick, window |-> <<>>,
               collision |-> NoCollision, wins |-> <<>>, event |-> NoEvent]

\* main(): one human player, or two with --hot-multiplayer
Init == \E pa \in {1, 2} : Setup(Map0, pa, 0, 0)

--------------------------------------------------------------------------
(* ctf.py: event handling *)

CONTROLS ==
    << [up |-> "K_UP", down |-> "K_DOWN", left |-> "K_LEFT", right |-> "K_RIGHT",
        shoot |-> "K_RETURN"],
       [up |-> "K_w", down |-> "K_s", left |-> "K_a", right |-> "K_d",
        shoot |-> "K_SPACE"] >>

Keys == UNION {{CONTROLS[k].up, CONTROLS[k].down, CONTROLS[k].left, CONTROLS[k].right,
                CONTROLS[k].shoot} : k \in DOMAIN CONTROLS}

Min(a, b) == IF a < b THEN a ELSE b

\* tanks[:player_amount]
Players == 1 .. Min(player_amount, Len(tanks))

\* every control scheme paired with a tank, whatever the number of players
ZippedAllControls == 1 .. Min(Len(tanks), Len(CONTROLS))

\* zip(players, CONTROLS)
Zipped == 1 .. Min(Cardinality(Players), Len(CONTROLS))

\* the if/elif chain of handle_key_down_event for one (player, control) pair
KeyDownCommand(T, control, key) ==
    IF key = control.up THEN accelerate(T)
    ELSE IF key = control.down THEN decelerate(T)
    ELSE IF key = control.left THEN turn_left(T)
    ELSE IF key = control.right THEN turn_right(T)
    ELSE T

\* the two ifs of handle_key_up_event for one (player, control) pair
KeyUpCommand(T, control, key) ==
    LET T1 == IF key = control.up \/ key = control.down THEN stop_moving(T) ELSE T
    IN IF key = control.left \/ key = control.right THEN stop_turning(T1) ELSE T1

\* the ValueError of the key handlers leaves update() and main()
Raise ==
    /\ loop' = [loop EXCEPT !.pc = "raised"]
    /\ space' = [space EXCEPT !.inputs = @ + 1]
    /\ UNCHANGED <<current_map, player_amount, tanks, flag, game_objects, ais, scores>>

TooManyPlayers == Cardinality(Players) > Len(CONTROLS)

\* a KEYDOWN event (other than Escape) polled by update(): handle_key_down_event
handle_key_down_event(key) ==
    /\ loop.pc = "events"
    /\ space.inputs < MaxInputs
    /\ hist' = [hist EXCEPT !.event = [type |-> "KEYDOWN", key |-> key]]
    /\ IF TooManyPlayers THEN Raise
       ELSE LET shooters == {k \in Zipped : key = CONTROLS[k].shoot}
                polled == [space EXCEPT !.inputs = @ + 1]
            IN \E bullet \in (IF shooters # {} THEN ShootResults(polled) ELSE {0}) :
                /\ tanks' = [i \in TankIds |->
                               IF i \in Zipped THEN KeyDownCommand(tanks[i], CONTROLS[i], key)
                               ELSE tanks[i]]
                /\ space' = space_after_shoot(polled, bullet)
                /\ game_objects' = append_bullet(game_objects, bullet)
                /\ UNCHANGED <<current_map, player_amount, flag, ais, scores, loop>>

\* a KEYUP event polled by update(): handle_key_up_event
handle_key_up_event(key) ==
    /\ loop.pc = "events"
    /\ space.inputs < MaxInputs
    /\ hist' = [hist EXCEPT !.event = [type |-> "KEYUP", key |-> key]]
    /\ IF TooManyPlayers THEN Raise
       ELSE /\ tanks' = [i \in TankIds |->
                           IF i \in Zipped THEN KeyUpCommand(tanks[i], CONTROLS[i], key)
                           ELSE tanks[i]]
            /\ space' = [space EXCEPT !.inputs = @ + 1]
            /\ UNCHANGED <<current_map, player_amount, flag, game_objects, ais, scores,
                           loop>>

\* the Ai after index i in the list ais, 0 when there is none
NextAi(i) == IF \E j \in AiIds : j > i
             THEN CHOOSE j \in AiIds : j > i /\ \A l \in AiIds : l > i => j <= l
             ELSE 0

\* a quit event after which update() goes on with the rest of its body
QuitEventFallingThrough ==
    /\ loop.pc = "events"
    /\ loop' = [loop EXCEPT !.pc = IF NextAi(0) = 0 THEN "update" ELSE "ai",
                            !.ai_idx = NextAi(0), !.should_quit = TRUE]
    /\ UNCHANGED <<current_map, player_amount, tanks, flag, space, game_objects, ais,
                   scores, hist>>

\* a QUIT event or an Escape key-down: update() returns True at once
QuitEvent ==
    /\ loop.pc = "events"
    /\ loop' = [loop EXCEPT !.pc = "frame", !.should_quit = TRUE]
    /\ UNCHANGED <<current_map, player_amount, tanks, flag, space, game_objects, ais,
                   scores, hist>>

\* the event queue is empty: update() goes on to the Ai loop
EndEvents ==
    /\ loop.pc = "events"
    /\ loop' = [loop EXCEPT !.pc = IF NextAi(0) = 0 THEN "update" ELSE "ai",
                            !.ai_idx = NextAi(0)]
    /\ hist' = [hist EXCEPT !.event = NoEvent]
    /\ UNCHANGED <<current_map, player_amount, tanks, flag, space, game_objects, ais,
                   scores>>

--------------------------------------------------------------------------
(* ai.py: Ai.decide, called for every Ai by update() *)

\* Ai.decide of the Ai of tank i: maybe_shoot, append the bullet, next(move_cycle)
decide(i) ==
    \E hit \in segment_query_first(current_map, i, tanks, space) :
      LET shoots == ShootsAt(current_map, hit)
      IN \E bullet \in (IF shoots THEN ShootResults(space) ELSE {0}) :
          LET r == move_cycle_next(current_map, i, tanks[i], ais[i], flag)
          IN /\ space' = space_after_shoot(space, bullet)
             /\ game_objects' = append_bullet(game_objects, bullet)
             /\ tanks' = [tanks EXCEPT ![i] = r.tank]
             /\ ais' = [ais EXCEPT ![i] = r.ai]
             /\ hist' = [hist EXCEPT !.decide =
                            [ai |-> i, hit |-> hit, shoot |-> shoots, bullet |-> bullet,
                             cmds |-> r.cmds, acquired |-> r.acquired, found |-> r.found,
                             start |-> r.ai.grid_pos,
                             target |-> get_target_tile(current_map, i, tanks[i], flag),
                             from |-> ais[i].pc]]
             /\ UNCHANGED <<current_map, player_amount, flag, scores>>

\* update(), lines 100-101: the next Ai of the list decides
AiDecide ==
    /\ loop.pc = "ai"
    /\ decide(loop.ai_idx)
    /\ loop' = [loop EXCEPT !.pc = IF NextAi(loop.ai_idx) = 0 THEN "update" ELSE "ai",
                            !.ai_idx = NextAi(loop.ai_idx)]

--------------------------------------------------------------------------
(* ctf.py: update(), lines 103-110, with the collision handlers of game_setup.py *)

Objects(list) == {list[k] : k \in DOMAIN list}

\* lines 103-105: every third tick, obj.update for every game object
UpdateObjects ==
    /\ loop.pc = "update"
    /\ IF loop.skip_update <= 0
       THEN /\ tanks' = [i \in TankIds |->
                           IF InList(game_objects, TankObj(i)) THEN tank_update(tanks[i])
                           ELSE tanks[i]]
            /\ hist' = [hist EXCEPT !.tick.updated = TRUE]
       ELSE UNCHANGED <<tanks, hist>>
    /\ loop' = [loop EXCEPT !.pc = "step"]
    /\ UNCHANGED <<current_map, player_amount, flag, space, game_objects, ais, scores>>

\* the body of a tank after one step of the space: it turns by its angular velocity
\* and moves along its heading unless a box or the arena boundary blocks it
integrate(m, sp, T) ==
    LET ahead == AddVec(T.pos, Forward(T.orient), T.vel)
        free == in_bounds(m, ahead) /\ ahead \notin sp.boxes
    IN [T EXCEPT !.pos = IF free THEN ahead ELSE T.pos,
                 !.orient = (T.orient + T.angvel + 4) % 4]

\* line 107: space.step(dt) moves the bodies, then reports the contacts it found
SpaceStep ==
    /\ loop.pc = "step"
    /\ tanks' = [i \in TankIds |-> integrate(current_map, space, tanks[i])]
    /\ loop' = [loop EXCEPT !.pc = "collide", !.before = space, !.contacts = {}]
    /\ hist' = [hist EXCEPT !.tick.stepped = TRUE]
    /\ UNCHANGED <<current_map, player_amount, flag, space, game_objects, ais, scores>>

\* a contact of this step between a bullet and another shape, reported once
Contact(b, other) == [bullet |-> b, other |-> other]
MayCollide(b, other) ==
    /\ loop.pc = "collide"
    /\ b \in loop.before.bullets
    /\ Contact(b, other) \notin loop.contacts
    /\ Cardinality(loop.contacts) < MaxContacts

\* the callback has run; an exception it raised leaves space.step and main()
Collided(handler, b, other, raised) ==
    /\ loop' = [loop EXCEPT !.contacts = @ \cup {Contact(b, other)},
                            !.pc = IF raised THEN "raised" ELSE @]
    /\ hist' = [hist EXCEPT !.collision = [handler |-> handler, bullet |-> b,
                                           other |-> other, raised |-> raised]]

\* the removal without the presence check
remove_unchecked(list, obj) == ListRemove(list, obj)

\* the presence check that never finds the object
remove_skipped(list, obj) == [list |-> list, raised |-> FALSE]

\* the guarded removal from the shared list: if obj in game_objects: remove(obj)
remove_if_present(list, obj) ==
    IF InList(list, obj) THEN ListRemove(list, obj) ELSE [list |-> list, raised |-> FALSE]

\* add_bullet_tank_collision_handler.collision_handler
bullet_tank_collision(b, t) ==
    /\ MayCollide(b, TankObj(t))
    /\ tanks' = [tanks EXCEPT ![t] = tank_respawn(current_map, t, tanks[t])]
    /\ flag' = flag_after_respawn(current_map, tanks[t], flag)
    /\ space' = bullet_remove(space, b)
    /\ LET removed == remove_if_present(game_objects, BulletObj(b))
       IN /\ game_objects' = removed.list
          /\ Collided("tank", b, TankObj(t), removed.raised)
    /\ UNCHANGED <<current_map, player_amount, ais, scores>>

\* a wood-box callback that removes the bullet and leaves the box standing
bullet_wood_box_collision_bullet_only(b, tile) ==
    /\ MayCollide(b, BoxObj(tile))
    /\ tile \in loop.before.boxes
    /\ Destructible(current_map, tile)
    /\ space' = bullet_remove(space, b)
    /\ LET removed == remove_if_present(game_objects, BulletObj(b))
       IN /\ game_objects' = removed.list
          /\ Collided("wood", b, BoxObj(tile), removed.raised)
    /\ UNCHANGED <<current_map, player_amount, tanks, flag, ais, scores>>

\* add_bullet_wood_box_collision_handler.collision_handler
bullet_wood_box_collision(b, tile) ==
    /\ MayCollide(b, BoxObj(tile))
    /\ tile \in loop.before.boxes
    /\ Destructible(current_map, tile)
    /\ LET no_box == remove_if_present(game_objects, BoxObj(tile))
           no_bullet == remove_if_present(no_box.list, BulletObj(b))
       IN IF no_box.raised
          THEN /\ space' = box_remove(space, tile)
               /\ game_objects' = no_box.list
               /\ Collided("wood", b, BoxObj(tile), TRUE)
          ELSE /\ space' = bullet_remove(box_remove(space, tile), b)
               /\ game_objects' = no_bullet.list
               /\ Collided("wood", b, BoxObj(tile), no_bullet.raised)
    /\ UNCHANGED <<current_map, player_amount, tanks, flag, ais, scores>>

\* shapes of collision type 0: indestructible boxes and the boundary segments
OtherShapes ==
    {BoxObj(tile) : tile \in {t \in loop.before.boxes : ~Destructible(current_map, t)}}
    \cup {SegmentShape}

\* a callback for the default collision type that also takes the struck box out of
\* the space and of game_objects
bullet_other_collision_removing_box(b, other) ==
    /\ MayCollide(b, other)
    /\ space' = bullet_remove(box_remove(space, <<other.a, other.b>>), b)
    /\ LET no_box == remove_if_present(game_objects, other)
           removed == remove_if_present(no_box.list, BulletObj(b))
       IN /\ game_objects' = removed.list
          /\ Collided("other", b, other, removed.raised)
    /\ UNCHANGED <<current_map, player_amount, tanks, flag, ais, scores>>

\* add_bullet_other_collision_handler.collision_handler
bullet_other_collision(b, other) ==
    /\ MayCollide(b, other)
    /\ space' = bullet_remove(space, b)
    /\ LET removed == remove_if_present(game_objects, BulletObj(b))
       IN /\ game_objects' = removed.list
          /\ Collided("other", b, other, removed.raised)
    /\ UNCHANGED <<current_map, player_amount, tanks, flag, ais, scores>>

\* two bullets touch: add_collision_handlers installs no handler for this pair,
\* the space resolves the contact itself
bullet_bullet_contact(b1, b2) ==
    /\ MayCollide(b1, BulletObj(b2))
    /\ b2 \in loop.before.bullets
    /\ b1 < b2
    /\ Collided("none", b1, BulletObj(b2), FALSE)
    /\ UNCHANGED <<current_map, player_amount, tanks, flag, space, game_objects, ais,
                   scores>>

\* space.step returns
EndStep ==
    /\ loop.pc = "collide"
    /\ loop' = [loop EXCEPT !.pc = "post", !.contacts = {}, !.before = NoSpace]
    /\ hist' = [hist EXCEPT !.collision = NoCollision]
    /\ UNCHANGED <<current_map, player_amount, tanks, flag, space, game_objects, ais,
                   scores>>

\* lines 109-110: obj.post_update for every game object; a carried flag follows
\* its tank
PostUpdate ==
    /\ loop.pc = "post"
    /\ LET carriers == {i \in TankIds : InList(game_objects, TankObj(i)) /\ tanks[i].flag}
       IN flag' = IF carriers = {} THEN flag
                  ELSE tanks[CHOOSE i \in carriers : \A j \in carriers : j <= i].pos
    /\ loop' = [loop EXCEPT !.pc = "win"]
    /\ hist' = [hist EXCEPT !.tick.posted = TRUE]
    /\ UNCHANGED <<current_map, player_amount, tanks, space, game_objects, ais, scores>>

--------------------------------------------------------------------------
(* ctf.py: update(), lines 112-117, and the rest of the loop body of main() *)

\* a reset that respawns the tanks and leaves the flag where it lies
reset_game_tanks_only(m, st) ==
    [st EXCEPT !.tanks = [i \in DOMAIN st.tanks |-> tank_respawn(m, i, st.tanks[i])]]

\* reset_game: every tank respawns, then the flag
reset_game(m, st) ==
    [st EXCEPT !.tanks = [i \in DOMAIN st.tanks |-> tank_respawn(m, i, st.tanks[i])],
               !.flag = flag_respawn(m)]

\* the for-loop over tanks from tank i on: try_grab_flag, has_won, score, reset
\* near is the set of tanks that are within grab range when on the flag's tile
RECURSIVE WinPass(_, _, _, _)
WinPass(m, i, st, near) ==
    IF i > Len(st.tanks) THEN st
    ELSE LET grabbed == [st EXCEPT !.tanks[i] =
                            try_grab_flag(st.tanks[i], st.flag, i \in near)]
         IN IF has_won(m, i, grabbed.tanks[i])
            THEN WinPass(m, i + 1,
                         reset_game(m, [grabbed EXCEPT !.scores[i] = @ + 1,
                                                       !.wins = Append(@, i)]),
                         near)
            ELSE WinPass(m, i + 1, grabbed, near)

WinCheck ==
    /\ loop.pc = "win"
    /\ \E near \in SUBSET {i \in TankIds : tanks[i].pos = flag /\ ~tanks[i].flag} :
         LET st == WinPass(current_map, 1,
                           [tanks |-> tanks, flag |-> flag, scores |-> scores,
                            wins |-> <<>>],
                           near)
         IN /\ tanks' = st.tanks
            /\ flag' = st.flag
            /\ scores' = st.scores
            /\ hist' = [hist EXCEPT !.wins = st.wins]
    /\ loop' = [loop EXCEPT !.pc = "frame"]
    /\ UNCHANGED <<current_map, player_amount, space, game_objects, ais>>

\* a counter that lets every second tick update
next_skip_update_every_other(skip_update) ==
    IF skip_update <= 0 THEN 1 ELSE skip_update - 1

\* main(), lines 161-165: the counter that lets every third tick update
next_skip_update(skip_update) ==
    IF skip_update <= 0 THEN 2 ELSE skip_update - 1

LastTicks(w, t) == IF Len(w) < 3 THEN Append(w, t) ELSE Append(Tail(w), t)

\* main(), lines 158-167: running, the skip_update counter, draw
EndFrame ==
    /\ loop.pc = "frame"
    /\ loop.should_quit
       \/ (loop.ticks + 1 < MaxTicks /\ \A i \in TankIds : scores[i] < MaxScore)
    /\ loop' = [loop EXCEPT
                 !.running = ~loop.should_quit,
                 !.skip_update = next_skip_update(loop.skip_update),
                 !.pc = IF loop.should_quit THEN "done" ELSE "events",
                 !.ticks = @ + 1]
    /\ hist' = [decide |-> NoDecide, tick |-> NewTick, wins |-> <<>>,
                collision |-> NoCollision, event |-> NoEvent,
                window |-> LastTicks(hist.window, hist.tick)]
    /\ UNCHANGED <<current_map, player_amount, tanks, flag, space, game_objects, ais,
                   scores>>

--------------------------------------------------------------------------
(* The game: main() *)

Next ==
    \/ \E key \in Keys : handle_key_down_event(key)
    \/ \E key \in Keys : handle_key_up_event(key)
    \/ QuitEvent
    \/ EndEvents
    \/ AiDecide
    \/ UpdateObjects
    \/ SpaceStep
    \/ \E b \in 1 .. MaxInputs, t \in TankIds : bullet_tank_collision(b, t)
    \/ \E b \in 1 .. MaxInputs, tile \in space.boxes \cup loop.before.boxes :
          bullet_wood_box_collision(b, tile)
    \/ \E b \in 1 .. MaxInputs, other \in OtherShapes : bullet_other_collision(b, other)
    \/ \E b1, b2 \in 1 .. MaxInputs : bullet_bullet_contact(b1, b2)
    \/ EndStep
    \/ PostUpdate
    \/ WinCheck
    \/ EndFrame

Spec == Init /\ [][Next]_vars

--------------------------------------------------------------------------
(* The game set up with any number of human players: create_game_objects and
   update() take player_amount as a parameter *)

InitConfig == \E pa \in {1, 2, 3} : Setup(Map0, pa, 0, 0)

SpecConfig == InitConfig /\ [][Next]_vars

--------------------------------------------------------------------------
(* The pathfinder on enumerated layouts: one Ai-driven tank spawned on any tile,
   the flag on any tile, no key events, no shots *)

Layouts ==
    {boxes \in [Tiles(MaxWidth, Map0Height) -> {0, 1, 2}] :
        Cardinality({t \in DOMAIN boxes : boxes[t] # 0}) <= MaxObstacles}

LayoutMap(boxes, s, t) ==
    [width |-> MaxWidth, height |-> Map0Height, boxes |-> boxes,
     start_positions |-> << <<s[1], s[2], 0>> >>, flag_position |-> t]

InitBfs ==
    \E boxes \in Layouts, s, t \in Tiles(MaxWidth, Map0Height) :
        Setup(LayoutMap(boxes, s, t), 0, MaxInputs, MaxTicks - MaxBfsTicks)

NextBfs ==
    \/ EndEvents
    \/ AiDecide
    \/ UpdateObjects
    \/ SpaceStep
    \/ EndStep
    \/ PostUpdate
    \/ WinCheck
    \/ EndFrame

SpecBfs == InitBfs /\ [][NextBfs]_vars

--------------------------------------------------------------------------
(* Shortest paths, defined without the search *)

Passable(m, t) == in_bounds(m, t) /\ m.boxes[t] \in {0, 2}

Adjacent(a, b) == Abs(a[1] - b[1]) + Abs(a[2] - b[2]) = 1

\* the tiles of R and the passable tiles next to one of them
Grow(m, R) ==
    R \cup {t \in Tiles(m.width, m.height) : Passable(m, t) /\ \E r \in R : Adjacent(r, t)}

\* with R the tiles at most k steps from the start: the number of steps to t,
\* -1 when no walk over passable tiles leads to t
RECURSIVE StepsTo(_, _, _, _)
StepsTo(m, R, t, k) ==
    IF t \in R THEN k
    ELSE CHOOSE d \in {IF N = R THEN -1 ELSE StepsTo(m, N, t, k + 1) : N \in {Grow(m, R)}} :
            TRUE

TrueDistance(m, s, t) == StepsTo(m, {s}, t, 0)

Reachable(m, s, t) == TrueDistance(m, s, t) # -1

\* the last decide ran path acquisition
Acquired == hist.decide.ai # 0 /\ hist.decide.acquired

--------------------------------------------------------------------------
(* C6: for every layout, cached start tile s and objective tile t reachable from
   s over passable tiles (code 0 or 2), find_shortest_path returns a sequence
   that excludes s, leads from s to t one axis-aligned step at a time, has the
   true shortest length, and holds only in-bounds tiles of code 0 or 2. *)
BfsShortestPath ==
    Acquired /\ Reachable(current_map, hist.decide.start, hist.decide.target) =>
        LET path == hist.decide.found
            walk == <<hist.decide.start>> \o path
        IN /\ \A k \in DOMAIN path : path[k] # hist.decide.start
           /\ walk[Len(walk)] = hist.decide.target
           /\ \A k \in DOMAIN path : Adjacent(walk[k], walk[k + 1])
           /\ Len(path) = TrueDistance(current_map, hist.decide.start, hist.decide.target)
           /\ \A k \in DOMAIN path : Passable(current_map, path[k])

\* a reachable objective whose shortest path is a detour around a box
BfsDetourFound ==
    /\ Acquired
    /\ Reachable(current_map, hist.decide.start, hist.decide.target)
    /\ Len(hist.decide.found) = 4
    /\ Abs(hist.decide.start[1] - hist.decide.target[1])
       + Abs(hist.decide.start[2] - hist.decide.target[2]) = 2

\* the Tank commands that turn or drive
DriveCommands == {"turn_left", "turn_right", "accelerate", "decelerate"}

--------------------------------------------------------------------------
(* C7: when every path from the cached tile to the objective is blocked, the
   path found is empty, the movement procedure issues no turn and no drive
   command on that tick and yields in path acquisition; resumed from there on
   the next tick, it runs path acquisition again. *)
BfsUnreachableIdles ==
    /\ Acquired /\ ~Reachable(current_map, hist.decide.start, hist.decide.target) =>
          /\ hist.decide.found = <<>>
          /\ hist.decide.cmds \cap DriveCommands = {}
          /\ ais[hist.decide.ai].pc = "nopath"
    /\ hist.decide.ai # 0 /\ hist.decide.from = "nopath" => hist.decide.acquired

\* an unreachable objective, found unreachable again on the tick after
BfsUnreachableRetried ==
    /\ Acquired
    /\ ~Reachable(current_map, hist.decide.start, hist.decide.target)
    /\ hist.decide.from = "nopath"
    /\ hist.decide.found = <<>>

--------------------------------------------------------------------------
(* Steps of the collision callbacks *)

\* this step is the run of one collision callback of the named handler
CallbackStep(handler) ==
    /\ loop.pc = "collide"
    /\ loop'.contacts # loop.contacts
    /\ hist'.collision.handler = handler

IsBullet(obj) == obj.kind = "bullet"
IsBox(obj) == obj.kind = "box"

\* a tank as respawn leaves it
AtSpawn(i, T) ==
    /\ T.pos = StartTile(current_map, i)
    /\ T.orient = StartOrient(current_map, i)
    /\ ~T.flag

--------------------------------------------------------------------------
(* C1: when has_won() is true for a tank in the win-check pass of update(), then
   after the pass every tank is at its spawn position and orientation, no tank
   carries the flag, the flag is at the map's flag position, the winner's score
   is one higher and every other score is unchanged, whatever the winner's
   place in the tank list. *)
RoundResetOnWin ==
    [][loop.pc = "win" /\ hist'.wins # <<>> =>
          /\ \A i \in TankIds : AtSpawn(i, tanks'[i])
          /\ flag' = current_map.flag_position
          /\ Len(hist'.wins) = 1
          /\ scores' = [scores EXCEPT ![hist'.wins[1]] = @ + 1]]_vars

\* the second tank of the list has just won, with tanks before and after it
MiddleTankWon == loop.pc = "frame" /\ hist.wins = <<2>> /\ Len(tanks) = 3

--------------------------------------------------------------------------
(* C2: after the bullet/tank callback the struck tank is at its spawn position
   and orientation without the flag, the bullet is neither in the space nor in
   game_objects, the tank is still in game_objects and in the tank list; and in
   every state every tank is in game_objects. *)
BulletTankRespawns ==
    /\ \A i \in TankIds : InList(game_objects, TankObj(i))
    /\ hist.collision.handler = "tank" =>
          LET t == hist.collision.other.a
              b == hist.collision.bullet
          IN /\ t \in TankIds
             /\ AtSpawn(t, tanks[t])
             /\ b \notin space.bullets
             /\ ~InList(game_objects, BulletObj(b))
             /\ InList(game_objects, TankObj(t))

\* a bullet that was in the space has just struck a tank, the first contact of
\* the step
TankStruck ==
    /\ hist.collision.handler = "tank"
    /\ hist.collision.bullet \in loop.before.bullets
    /\ Cardinality(loop.contacts) = 1

--------------------------------------------------------------------------
(* C3: the bullet/wood-box callback leaves the box and the bullet absent from
   the space and from game_objects, and changes nothing else: the tanks, the
   flag, the scores, the other boxes and bullets of the space and every other
   element of game_objects, in its order, are as before. *)
WoodBoxCollisionFrame ==
    [][CallbackStep("wood") =>
          LET box == hist'.collision.other
              tile == <<box.a, box.b>>
              b == hist'.collision.bullet
          IN /\ tile \notin space'.boxes /\ ~InList(game_objects', box)
             /\ b \notin space'.bullets /\ ~InList(game_objects', BulletObj(b))
             /\ space'.boxes = space.boxes \ {tile}
             /\ space'.bullets = space.bullets \ {b}
             /\ game_objects' = SelectSeq(game_objects,
                                          LAMBDA o : o # box /\ o # BulletObj(b))
             /\ UNCHANGED <<tanks, flag, scores, ais, current_map, player_amount>>]_vars

\* a bullet has just destroyed the wood box while another bullet is in flight
WoodBoxDestroyed ==
    /\ hist.collision.handler = "wood"
    /\ Cardinality(loop.contacts) = 1
    /\ hist.collision.bullet \in loop.before.bullets
    /\ <<hist.collision.other.a, hist.collision.other.b>> \in loop.before.boxes
    /\ space.bullets # {}

--------------------------------------------------------------------------
(* C4: every contact of a bullet with a tank, a wood box, an indestructible
   box, a boundary segment or another bullet runs an installed callback that
   removes the bullet: no bullet of a contact of this step is still in the
   space or in game_objects. *)
NoBulletSurvivesContact ==
    \A c \in loop.contacts :
        /\ c.bullet \notin space.bullets
        /\ ~InList(game_objects, BulletObj(c.bullet))
        /\ c.other.kind = "bullet" =>
              /\ c.other.a \notin space.bullets
              /\ ~InList(game_objects, c.other)

--------------------------------------------------------------------------
(* C5: a callback that processes a bullet, or a wood box, already removed in
   this physics step raises no error and leaves the bullets, respectively the
   boxes, of the space and of game_objects as the first removal left them. *)
RemovalIdempotent ==
    [][CallbackStep("tank") \/ CallbackStep("wood") \/ CallbackStep("other") =>
          LET b == hist'.collision.bullet
              other == hist'.collision.other
          IN /\ ~hist'.collision.raised
             /\ loop'.pc = "collide"
             /\ b \notin space.bullets =>
                   /\ space'.bullets = space.bullets
                   /\ SelectSeq(game_objects', IsBullet) = SelectSeq(game_objects, IsBullet)
             /\ hist'.collision.handler = "wood" /\ <<other.a, other.b>> \notin space.boxes =>
                   /\ space'.boxes = space.boxes
                   /\ SelectSeq(game_objects', IsBox) = SelectSeq(game_objects, IsBox)]_vars

\* the second callback of one physics step for the same bullet has just run
BulletProcessedTwice ==
    /\ loop.pc = "collide"
    /\ hist.collision.handler \in {"tank", "wood", "other"}
    /\ \E c \in loop.contacts :
          /\ c.bullet = hist.collision.bullet
          /\ c.other # hist.collision.other

--------------------------------------------------------------------------
(* C8: with more human players than control schemes nothing of a tick runs: no
   Ai decides, the space is never stepped and no frame is drawn, whether or not
   a key event occurs. *)
ConfigRejectedBeforeAnyTick ==
    TooManyPlayers =>
        /\ hist.decide.ai = 0
        /\ ~hist.tick.stepped

--------------------------------------------------------------------------
(* C9: while no quit event has occurred, of any three consecutive ticks exactly
   one updated the game objects, namely the first tick of the run and every
   third tick after it, and every tick stepped the space and ran post_update. *)
UpdateCadence ==
    ~loop.should_quit =>
        LET w == hist.window
            first == loop.ticks - Len(w)
        IN /\ \A k \in DOMAIN w : w[k].stepped /\ w[k].posted
           /\ \A k \in DOMAIN w : w[k].updated <=> (first + k - 1) % 3 = 0
           /\ Len(w) = 3 => Cardinality({k \in DOMAIN w : w[k].updated}) = 1

\* three consecutive ticks have run, the first of them not the first of the run
ThreeTicksRun == ~loop.should_quit /\ Len(hist.window) = 3 /\ loop.ticks = 5

--------------------------------------------------------------------------
(* C10: maybe_shoot calls the tank's shoot exactly when the first shape its ray
   strikes belongs to a tank or to a wood box; a bullet is produced only then,
   and decide appends it to game_objects. *)
ShootingLineOfSight ==
    hist.decide.ai # 0 =>
        LET hit == hist.decide.hit
        IN /\ hist.decide.shoot <=>
                 \/ hit.kind = "tank"
                 \/ hit.kind = "box" /\ current_map.boxes[<<hit.a, hit.b>>] = 2
           /\ hist.decide.bullet # 0 => hist.decide.shoot
           /\ hist.decide.bullet # 0 /\ loop.pc \in {"ai", "update"} =>
                 /\ game_objects # <<>>
                 /\ game_objects[Len(game_objects)] = BulletObj(hist.decide.bullet)

\* an Ai has just fired at the tank its ray struck first
AiFiredAtTank ==
    /\ loop.pc \in {"ai", "update"}
    /\ hist.decide.hit.kind = "tank"
    /\ hist.decide.bullet # 0

--------------------------------------------------------------------------
(* C12: the callback for a bullet that hits an indestructible box or a boundary
   segment removes the bullet from the space and from game_objects and changes
   nothing else: the struck box stays in the space and in game_objects, the
   boxes, the other bullets, the tanks, the flag and the scores are as before. *)
OtherCollisionFrame ==
    [][CallbackStep("other") =>
          LET other == hist'.collision.other
              b == hist'.collision.bullet
          IN /\ b \notin space'.bullets /\ ~InList(game_objects', BulletObj(b))
             /\ space'.bullets = space.bullets \ {b}
             /\ space'.boxes = space.boxes
             /\ game_objects' = SelectSeq(game_objects, LAMBDA o : o # BulletObj(b))
             /\ other.kind = "box" =>
                   /\ <<other.a, other.b>> \in space'.boxes
                   /\ InList(game_objects', other)
             /\ UNCHANGED <<tanks, flag, scores, ais, current_map, player_amount>>]_vars

\* a bullet that was in the space has just hit the indestructible box
RockStruck ==
    /\ loop.pc = "collide"
    /\ hist.collision.handler = "other"
    /\ hist.collision.other.kind = "box"
    /\ Cardinality(loop.contacts) = 1
    /\ hist.collision.bullet \in loop.before.bullets

--------------------------------------------------------------------------
(* The heading error of an Ai-driven tank *)

\* this step is the space.step of a tick
StepOfSpace == loop.pc = "step" /\ loop'.pc = "collide"

\* |theta|: the angle between the heading to the sub-target and the tank's forward
\* direction, before and after the step
HeadingError(i) == Abs(current_angle(tanks[i], ais[i]))
HeadingErrorAfter(i) == Abs(current_angle(tanks'[i], ais[i]))

--------------------------------------------------------------------------
(* C11: for an Ai whose tank is off the heading to its sub-target by more than
   MIN_ANGLE_DIF and still has the turn intent of the phase, the space.step of every tick the Ai spends in the turning phase
   strictly reduces the heading error, on ticks with and without the logical
   update; and a decide that finds the error within MIN_ANGLE_DIF leaves the
   turning phase with stop_turning. *)
TurningReducesAngle ==
    [][/\ StepOfSpace =>
             \A i \in AiIds :
                 /\ ais[i].pc = "turning"
                 /\ tanks[i].rotation # 0
                 /\ HeadingError(i) > MIN_ANGLE_DIF
                 => HeadingErrorAfter(i) < HeadingError(i)
       /\ loop.pc = "ai" /\ ais[loop.ai_idx].pc = "turning"
          /\ HeadingError(loop.ai_idx) <= MIN_ANGLE_DIF =>
             /\ ais'[loop.ai_idx].pc # "turning"
             /\ "stop_turning" \in hist'.decide.cmds]_vars

--------------------------------------------------------------------------
(* C13: the loop of main() ends exactly on a quit event (a window-close or an
   Escape key-down polled by update()): running is cleared only in a tick whose
   update() returned True, and a tick whose update() returned True clears it; the
   step that polls the quit event and every step after it leave tanks, flag,
   space, game_objects, ais and scores unchanged and go straight to the end of
   the tick and of the loop; a tick in which a tank wins leaves running set and
   update() returning False. *)
QuitEndsLoop ==
    [][/\ (loop.running /\ ~loop'.running) => loop.should_quit
       /\ ~loop.should_quit /\ loop'.should_quit =>
             /\ loop.pc = "events" /\ loop'.pc = "frame"
             /\ UNCHANGED <<tanks, flag, space, game_objects, ais, scores, hist>>
       /\ loop.should_quit =>
             /\ loop.pc = "frame" /\ loop'.pc = "done" /\ ~loop'.running
             /\ UNCHANGED <<tanks, flag, space, game_objects, ais, scores>>
       /\ loop'.pc = "done" => loop.should_quit
       /\ hist'.wins # <<>> => loop'.running /\ ~loop'.should_quit /\ loop'.pc = "frame"
       /\ ~loop.running => FALSE]_vars

\* the loop has ended in a tick that routed key events before the quit event
QuitAfterKeys ==
    loop.pc = "done" /\ ~loop.running /\ space.inputs = MaxInputs /\ loop.ticks > 1

--------------------------------------------------------------------------
(* The keys of the two control schemes, and a key event routed by update() *)
ArrowScheme == {"K_UP", "K_DOWN", "K_LEFT", "K_RIGHT", "K_RETURN"}
LetterScheme == {"K_w", "K_s", "K_a", "K_d", "K_SPACE"}
KeyRouted == loop.pc = "events" /\ space'.inputs = space.inputs + 1

(* C14: a key-down or key-up event changes at most the tank of its scheme: an
   arrow or Enter key only the first tank, a W/A/S/D or Space key only the second
   tank and only with two human players; a bullet is fired only by the shoot key
   of a scheme that has a human player; the tanks driven by an Ai, their Ais,
   the flag and the scores are never changed by a key event. *)
KeyRoutingFrame ==
    [][KeyRouted =>
          LET key == hist'.event.key
          IN /\ tanks'[1] # tanks[1] => key \in ArrowScheme /\ player_amount >= 1
             /\ tanks'[2] # tanks[2] => key \in LetterScheme /\ player_amount = 2
             /\ \A i \in TankIds : i > player_amount \/ i > 2 => tanks'[i] = tanks[i]
             /\ space'.bullets # space.bullets =>
                   /\ hist'.event.type = "KEYDOWN"
                   /\ \/ key = "K_RETURN"
                      \/ key = "K_SPACE" /\ player_amount = 2
             /\ game_objects' # game_objects => space'.bullets # space.bullets
             /\ UNCHANGED <<ais, flag, scores, current_map, player_amount>>]_vars

\* with two human players the W key has set the second tank moving while the
\* first tank is as it was spawned
SecondPlayerDrove ==
    /\ loop.pc = "events" /\ player_amount = 2
    /\ hist.event = [type |-> "KEYDOWN", key |-> "K_w"]
    /\ tanks[2].acceleration # 0
    /\ tanks[1] = NewTank(current_map, 1)

--------------------------------------------------------------------------
(* C19: at most one tank carries the flag, and the grab/win pass of a tick lets
   at most one tank win. *)
SingleCarrier ==
    /\ Cardinality({i \in TankIds : tanks[i].flag}) <= 1
    /\ Len(hist.wins) <= 1

--------------------------------------------------------------------------
(* Bullets in game_objects and in the space *)
ListedBullets == {b \in 1 .. MaxInputs + 1 : InList(game_objects, BulletObj(b))}
TimesListed(b) == Cardinality({k \in DOMAIN game_objects : game_objects[k] = BulletObj(b)})
BulletsInBoth ==
    /\ ListedBullets = space.bullets
    /\ \A b \in ListedBullets : TimesListed(b) = 1

(* C20: in every state, and so at every tick boundary, a bullet is in
   game_objects exactly when it is in the space, and it is there once; a step in
   which a tank's shoot returns a bullet appends exactly that bullet to
   game_objects and changes the list in no other way; a bullet that has been
   created and is gone from the space is never again in the space or in
   game_objects. *)
BulletBookkeeping ==
    [][/\ BulletsInBoth /\ BulletsInBoth'
       /\ space'.next # space.next =>
             /\ space'.next = space.next + 1
             /\ space'.bullets = space.bullets \cup {space.next}
             /\ game_objects' = Append(game_objects, BulletObj(space.next))
             /\ \/ loop.pc = "events" /\ hist'.event.type = "KEYDOWN"
                \/ loop.pc = "ai" /\ hist'.decide.shoot
       /\ \A b \in 1 .. MaxInputs + 1 :
             b < space.next /\ b \notin space.bullets =>
                b \notin space'.bullets /\ ~InList(game_objects', BulletObj(b))]_vars

\* a tick has begun after a bullet of an earlier tick was removed by a callback
\* while a later bullet is still flying
BulletGoneBulletFlying ==
    /\ loop.pc = "events" /\ loop.ticks > 0
    /\ space.next = 3 /\ space.bullets = {2}

--------------------------------------------------------------------------
(* C17: an Ai in the turning phase always leaves it: whenever it is in the
   turning phase and off its heading by more than MIN_ANGLE_DIF, its tank is
   turning or has the intent to turn, also after a respawn of the tank. *)
TurningPhaseIsLeft ==
    \A i \in AiIds :
        ais[i].pc = "turning" /\ HeadingError(i) > MIN_ANGLE_DIF
        => tanks[i].rotation # 0 \/ tanks[i].angvel # 0

\* the state C17 excludes is one no step leaves: the turning loop gives no turn
\* command and a respawn restores the same orientation
TurningStuck(i) ==
    /\ ais[i].pc = "turning" /\ HeadingError(i) > MIN_ANGLE_DIF
    /\ tanks[i].rotation = 0 /\ tanks[i].angvel = 0
TurningStuckForever == [][\A i \in AiIds : TurningStuck(i) => TurningStuck(i)']_vars

--------------------------------------------------------------------------
(* C15: an Ai whose path acquisition found no path idles: its tank has no
   intent to drive or to turn and its body neither moves nor turns, whatever
   phase the Ai was in before. *)
IdleOnNoPath ==
    \A i \in AiIds :
        ais[i].pc = "nopath" =>
            /\ tanks[i].acceleration = 0 /\ tanks[i].rotation = 0
            /\ tanks[i].vel = 0 /\ tanks[i].angvel = 0

--------------------------------------------------------------------------
(* C18: whenever an Ai runs find_shortest_path, the grid_pos it searches from is
   the tile its tank is on, also after a respawn of the tank. *)
CachedTileIsCurrent ==
    [][loop.pc = "ai" /\ hist'.decide.acquired =>
          hist'.decide.start = tanks[loop.ai_idx].pos]_vars

--------------------------------------------------------------------------
(* ai.py: move_cycle_gen and find_shortest_path statement by statement. One call
   of Ai.decide is the shooting check followed by the statements the generator
   runs from where it was suspended to its next yield; the rest of the tick is
   that of update(). One Ai-driven tank on the enumerated layouts. *)

\* the generator suspended at a yield (or not yet started): no search in progress
GenIdle ==
    [line |-> "suspended", que |-> <<>>, visited |-> {}, paths |-> <<>>,
     target |-> <<0, 0>>, current |-> <<0, 0>>, nbrs |-> <<>>, path |-> <<>>,
     distance |-> 0, prev_distance |-> 0, steps |-> 0, searched |-> FALSE,
     at |-> <<>>]

InitGen ==
    \E boxes \in Layouts, s, t \in Tiles(MaxWidth, Map0Height) :
        LET m == LayoutMap(boxes, s, t)
        IN /\ current_map = m
           /\ player_amount = 0
           /\ tanks = create_tanks(m)
           /\ flag = m.flag_position
           /\ space = [boxes |-> {c \in Tiles(m.width, m.height) : m.boxes[c] # 0},
                       bullets |-> {}, next |-> 1, inputs |-> MaxInputs]
           /\ game_objects = create_game_objects(m)
           /\ ais = create_ais(m, 0)
           /\ scores = [i \in 1 .. Len(m.start_positions) |-> 0]
           /\ loop = [pc |-> "events", running |-> TRUE, skip_update |-> 0,
                      should_quit |-> FALSE, ai_idx |-> 0, contacts |-> {},
                      before |-> NoSpace, ticks |-> MaxTicks - MaxBfsTicks,
                      gen |-> GenIdle]
           /\ hist = [decide |-> NoDecide, tick |-> NewTick, window |-> <<>>,
                      collision |-> NoCollision, wins |-> <<>>, event |-> NoEvent]

\* the generator of the deciding Ai is running and about to execute this statement
Running(line) == loop.pc = "gen" /\ loop.gen.line = line

\* the generator goes on to its next statement with generator state g
Goto(g) == loop' = [loop EXCEPT !.gen = [g EXCEPT !.steps = loop.gen.steps + 1]]

\* yield: the generator is suspended, decide returns, update() goes on
GenYield(A, pc) ==
    /\ ais' = [ais EXCEPT ![loop.ai_idx] = [A EXCEPT !.pc = pc]]
    /\ loop' = [loop EXCEPT !.pc = IF NextAi(loop.ai_idx) = 0 THEN "update" ELSE "ai",
                            !.ai_idx = NextAi(loop.ai_idx),
                            !.gen = [GenIdle EXCEPT !.steps = loop.gen.steps + 1,
                                                    !.searched = loop.gen.searched,
                                                    !.at = loop.gen.at]]

\* Ai.decide: maybe_shoot, append the bullet, next(self.move_cycle) resumes the
\* generator after the yield it was suspended at
GenResume ==
    /\ loop.pc = "ai"
    /\ LET i == loop.ai_idx
       IN \E hit \in segment_query_first(current_map, i, tanks, space) :
            LET shoots == ShootsAt(current_map, hit)
            IN \E bullet \in (IF shoots THEN ShootResults(space) ELSE {0}) :
                /\ space' = space_after_shoot(space, bullet)
                /\ game_objects' = append_bullet(game_objects, bullet)
                /\ hist' = [hist EXCEPT !.decide =
                               [NoDecide EXCEPT !.ai = i, !.hit = hit, !.shoot = shoots,
                                                !.bullet = bullet, !.from = ais[i].pc]]
                /\ loop' = [loop EXCEPT
                              !.pc = "gen",
                              !.gen = [GenIdle EXCEPT
                                         !.at = [tank |-> tanks[i], ai |-> ais[i]],
                                         !.line = CASE ais[i].pc \in {"start", "nopath"} -> "find"
                                                    [] ais[i].pc = "turning" -> "turn_test"
                                                    [] OTHER -> "drive_resume"]]
    /\ UNCHANGED <<current_map, player_amount, tanks, flag, ais, scores>>

\* find_shortest_path, lines 122-125
GenFind ==
    /\ Running("find")
    /\ LET i == loop.ai_idx
       IN Goto([loop.gen EXCEPT
                  !.line = "bfs_test",
                  !.que = <<ais[i].grid_pos>>,
                  !.visited = {ais[i].grid_pos},
                  !.paths = (ais[i].grid_pos :> <<>>),
                  !.target = get_target_tile(current_map, i, tanks[i], flag),
                  !.searched = TRUE])
    /\ UNCHANGED <<current_map, player_amount, tanks, flag, space, game_objects, ais,
                   scores, hist>>

\* find_shortest_path, lines 126-129 and 135: while que, popleft, the test for the
\* target, the return of either deque
GenBfsTest ==
    /\ Running("bfs_test")
    /\ LET g == loop.gen
       IN IF g.que = <<>>
          THEN Goto([g EXCEPT !.line = "path_test", !.path = <<>>])
          ELSE LET current == Head(g.que)
               IN IF current = g.target
                  THEN Goto([g EXCEPT !.line = "path_test", !.que = Tail(g.que),
                                      !.path = g.paths[current]])
                  ELSE Goto([g EXCEPT !.line = "bfs_visit", !.que = Tail(g.que),
                                      !.current = current,
                                      !.nbrs = get_tile_neighbors(current_map, current)])
    /\ UNCHANGED <<current_map, player_amount, tanks, flag, space, game_objects, ais,
                   scores, hist>>

\* find_shortest_path, lines 130-134: one pass of the for-loop over the neighbours
GenBfsVisit ==
    /\ Running("bfs_visit")
    /\ LET g == loop.gen
       IN IF g.nbrs = <<>>
          THEN Goto([g EXCEPT !.line = "bfs_test"])
          ELSE LET st == VisitNeighbors(<<Head(g.nbrs)>>, g.current,
                                        [que |-> g.que, visited |-> g.visited,
                                         paths |-> g.paths])
               IN Goto([g EXCEPT !.nbrs = Tail(g.nbrs), !.que = st.que,
                                 !.visited = st.visited, !.paths = st.paths])
    /\ UNCHANGED <<current_map, player_amount, tanks, flag, space, game_objects, ais,
                   scores, hist>>

\* move_cycle_gen, lines 89-100: no path yields; else the first tile of the path,
\* the angle to it and the turn command
GenPathTest ==
    /\ Running("path_test")
    /\ LET i == loop.ai_idx
           g == loop.gen
           found == [hist EXCEPT !.decide.acquired = TRUE, !.decide.found = g.path,
                                 !.decide.start = ais[i].grid_pos,
                                 !.decide.target = g.target]
       IN IF g.path = <<>>
          THEN /\ GenYield(ais[i], "nopath")
               /\ hist' = found
               /\ UNCHANGED tanks
          ELSE LET A1 == [ais[i] EXCEPT !.next_coord = Head(g.path)]
                   angle == current_angle(tanks[i], A1)
               IN /\ ais' = [ais EXCEPT ![i] = A1]
                  /\ tanks' = [tanks EXCEPT ![i] =
                                 IF angle > MIN_ANGLE_DIF THEN turn_left(@)
                                 ELSE IF angle < -MIN_ANGLE_DIF THEN turn_right(@)
                                 ELSE @]
                  /\ hist' = [found EXCEPT !.decide.cmds =
                                 IF angle > MIN_ANGLE_DIF THEN {"turn_left"}
                                 ELSE IF angle < -MIN_ANGLE_DIF THEN {"turn_right"}
                                 ELSE {}]
                  /\ Goto([g EXCEPT !.line = "turn_test", !.path = Tail(g.path)])
    /\ UNCHANGED <<current_map, player_amount, flag, space, game_objects, scores>>

\* move_cycle_gen, lines 101-105: the test of the turning loop with the angle as
\* it is now; stop_moving and yield, or stop_turning
GenTurnTest ==
    /\ Running("turn_test")
    /\ LET i == loop.ai_idx
       IN IF Abs(current_angle(tanks[i], ais[i])) > MIN_ANGLE_DIF
          THEN /\ tanks' = [tanks EXCEPT ![i] = stop_moving(@)]
               /\ hist' = [hist EXCEPT !.decide.cmds = @ \cup {"stop_moving"}]
               /\ GenYield(ais[i], "turning")
          ELSE /\ tanks' = [tanks EXCEPT ![i] = stop_turning(@)]
               /\ hist' = [hist EXCEPT !.decide.cmds = @ \cup {"stop_turning"}]
               /\ Goto([loop.gen EXCEPT !.line = "drive_start"])
               /\ UNCHANGED ais
    /\ UNCHANGED <<current_map, player_amount, flag, space, game_objects, scores>>

\* a first prev_distance that equals the distance
first_prev_distance_same(distance) == distance

\* move_cycle_gen, line 111: prev_distance = distance + 1
first_prev_distance(distance) == distance + 1

\* move_cycle_gen, lines 108-111: accelerate, measure the distance
GenDriveStart ==
    /\ Running("drive_start")
    /\ LET i == loop.ai_idx
           distance == get_distance(tanks[i], ais[i])
       IN /\ tanks' = [tanks EXCEPT ![i] = accelerate(@)]
          /\ hist' = [hist EXCEPT !.decide.cmds = @ \cup {"accelerate"}]
          /\ Goto([loop.gen EXCEPT !.line = "drive_test", !.distance = distance,
                                   !.prev_distance = first_prev_distance(distance)])
    /\ UNCHANGED <<current_map, player_amount, flag, space, game_objects, ais, scores>>

\* move_cycle_gen, lines 114-115: after the yield of the driving loop
GenDriveResume ==
    /\ Running("drive_resume")
    /\ LET i == loop.ai_idx
       IN Goto([loop.gen EXCEPT !.line = "drive_test",
                                !.prev_distance = ais[i].distance,
                                !.distance = get_distance(tanks[i], ais[i])])
    /\ UNCHANGED <<current_map, player_amount, tanks, flag, space, game_objects, ais,
                   scores, hist>>

\* move_cycle_gen, lines 112-113 and 116: the test of the driving loop; yield, or
\* update_grid_pos and back to the top of the while True loop
GenDriveTest ==
    /\ Running("drive_test")
    /\ LET i == loop.ai_idx
           g == loop.gen
           A1 == [ais[i] EXCEPT !.distance = g.distance]
       IN IF g.distance < g.prev_distance
          THEN GenYield(A1, "driving")
          ELSE /\ ais' = [ais EXCEPT ![i] = [A1 EXCEPT !.grid_pos = tanks[i].pos]]
               /\ Goto([g EXCEPT !.line = "find"])
    /\ UNCHANGED <<current_map, player_amount, tanks, flag, space, game_objects,
                   scores, hist>>

NextGen ==
    \/ EndEvents
    \/ GenResume
    \/ GenFind
    \/ GenBfsTest
    \/ GenBfsVisit
    \/ GenPathTest
    \/ GenTurnTest
    \/ GenDriveStart
    \/ GenDriveResume
    \/ GenDriveTest
    \/ UpdateObjects
    \/ SpaceStep
    \/ EndStep
    \/ PostUpdate
    \/ WinCheck
    \/ EndFrame

SpecGen == InitGen /\ [][NextGen]_vars

--------------------------------------------------------------------------
(* The statements one call of next(self.move_cycle) may run on a map: the search
   pops every tile at most once and looks at four neighbours of each *)
GenStepLimit(m) == 6 * m.width * m.height + 8
GenLines ==
    {"find", "bfs_test", "bfs_visit", "path_test", "turn_test", "drive_start",
     "drive_resume", "drive_test"}

(* C16: every call of Ai.decide makes the shooting check first and then runs the
   generator from where it was suspended to exactly one yield: the generator
   executes at most GenStepLimit statements before it yields, the search
   included; while it runs it is always at a statement of the loop (it never
   returns); the yield ends the decide call, and the tank and Ai it leaves are
   those of one step of the movement procedure. *)
OneStepPerDecide ==
    [][/\ loop'.gen.steps <= GenStepLimit(current_map)
       /\ loop.pc = "ai" =>
             /\ loop'.pc = "gen" /\ loop'.gen.steps = 0
             /\ hist'.decide.ai = loop.ai_idx
             /\ hist'.decide.hit \in segment_query_first(current_map, loop.ai_idx, tanks, space)
             /\ UNCHANGED <<tanks, ais>>
       /\ loop.pc = "gen" =>
             /\ loop.gen.line \in GenLines
             /\ loop'.pc \in {"gen", "update"}
             /\ loop'.pc = "gen" => loop'.gen.line \in GenLines
             /\ loop'.pc = "update" =>
                   LET i == loop.ai_idx
                       r == move_cycle_next(current_map, i, loop.gen.at.tank,
                                            loop.gen.at.ai, flag)
                   IN /\ ais'[i].pc \in {"nopath", "turning", "driving"}
                      /\ ais'[i] = r.ai
                      /\ tanks'[i] = r.tank
                      /\ hist'.decide.cmds = r.cmds
       /\ loop.pc \notin {"ai", "gen"} => UNCHANGED ais]_vars

\* a decide call has left the driving loop, searched again and yielded in a new
\* driving phase
DroveOnAfterSearch ==
    /\ loop.pc = "update" /\ hist.decide.from = "driving" /\ loop.gen.searched
    /\ ais[1].pc = "driving" /\ Len(hist.decide.found) > 1

==========================================================================
